---- MODULE Spec2Model ----
(***************************************************************************)
(* A model of eiriksteen/coronary-artery-segmentation:                     *)
(*   - the ASOCA dataset indexer (src/src/mis/datasets/asoca.py):          *)
(*     get_num_slices, the cumulative-sum index, __len__ and __getitem__;  *)
(*   - the training script (src/scripts/train_unet2d.py): argument         *)
(*     validation, dataset and model construction, the resume attempt and  *)
(*     the epoch loop with its checkpoint on a new minimum loss;           *)
(*   - the main loops of src/scripts/runtime.py and                        *)
(*     src/scripts/model_parameters.py over model_names;                   *)
(*   - the runtime profiler (src/scripts/runtime.py) and its clock.        *)
(* Patient positions and slice offsets are 0-based as in the Python code;  *)
(* TLA+ sequences are 1-based, so position p is element p + 1.             *)
(***************************************************************************)
EXTENDS Integers, Sequences, FiniteSets, TLC

VARIABLES
    \* ---- the data directory and the ASOCADataset object
    disk,           \* slice counts of the volumes Normal_1.. and Diseased_1..
    constructed,    \* whether ASOCADataset.__init__ has run
    num_slices,     \* self.num_slices
    num_normal,     \* self.num_normal
    num_diseased,   \* self.num_diseased
    slice_cumsums,  \* self.slice_cumsums
    \* ---- the last __getitem__ call
    index,          \* its argument
    patient_idx,    \* the local patient_idx (-1: not computed)
    slice_idx,      \* the local slice_idx (-1: not computed)
    ctca_path,      \* the file chosen for the image  <<group, number>>
    anno_path,      \* the file chosen for the mask   <<group, number>>
    outcome,        \* "none", "ok", or the exception raised
    sample,         \* the dictionary returned: what "image" and "mask" hold
    \* ---- the training script
    args,           \* the parsed command line
    n_val,          \* number of validation samples
    pc,             \* position of the script
    created,        \* what the script has created so far in this run
    err,            \* exception that ended the script ("none" if none)
    run,            \* number of the current run of the script (1-based)
    fs,             \* files below out_dir: path -> content
    weights,        \* where the model's weights come from
    loss_fn,        \* the loss function chosen by train
    epoch,          \* number of epochs finished in this run
    val_losses,     \* val_losses of this run
    min_loss,       \* min_loss of this run
    saved,          \* epochs (0-based) whose checkpoint this run wrote, in order
    \* ---- the main loops of runtime.py and model_parameters.py
    script,         \* which of the two scripts runs
    model_names,    \* the list model_names
    pos,            \* number of names the loop has taken (the next is pos + 1)
    model,          \* model_parameters.py: the variable model
    reports,        \* what was reported, in order
    unrecognized,   \* positions at which the final else branch was taken
    serr,           \* exception that ended the script ("none" if none)
    \* ---- perform_runtime_analysis_unet / _segformer (runtime.py)
    now,            \* the clock: the value time.time() returned last, in ticks
    ppc,            \* position of the profiler
    number_of_patients,
    patient,        \* patients finished
    n_img,          \* img.shape[-1] of the current patient
    slice,          \* slices of the current patient finished
    total_t0,       \* total_time_t0
    total_t1,       \* total_time_t1 (-1 while the patient is not finished)
    prev_end,       \* end of the timed interval before cur
    cur,            \* the timed interval measured last
    slices_t,       \* the three ..._times_slices lists of the current patient
    times,          \* loading_times, ..., total_times
    printed         \* the averages and percentages written to times.txt

dataVars == <<disk, constructed, num_slices, num_normal, num_diseased, slice_cumsums,
              index, patient_idx, slice_idx, ctca_path, anno_path, outcome, sample>>
trainVars == <<args, n_val, pc, created, err, run, fs, weights, loss_fn, epoch, val_losses,
               min_loss, saved>>
loopVars == <<script, model_names, pos, model, reports, unrecognized, serr>>
profVars == <<now, ppc, number_of_patients, patient, n_img, slice, total_t0, total_t1,
              prev_end, cur, slices_t, times, printed>>
toolVars == <<loopVars, profVars>>
vars == <<dataVars, trainVars, toolVars>>

---------------------------------------------------------------------------
\* Bounds of the model.
MaxNormal == 2      \* Normal patients on a small disk
MaxDiseased == 2    \* Diseased patients on a small disk
MaxSlices == 2      \* slices per volume
ManyPatients == 10  \* size of the big group on a large disk
IndexSlack == 2     \* how far outside [0, len) __getitem__ is called
NumEpochs == 3      \* args.num_epochs
MaxLoss == 1        \* validation losses are 0..MaxLoss
MaxRuns == 2        \* runs of the training script on one results directory
MaxNames == 3       \* length of model_names
MaxTick == 1        \* ticks the clock advances between two readings
MaxClock == 6       \* the clock is followed up to this reading
MaxImgSlices == 1   \* slices of a profiled volume

\* Decimal formatting of the f-strings.
Base == 10

\* runtime.py, line 235: number_of_patients
NumberOfPatients == 2

---------------------------------------------------------------------------
\* Helpers.
RECURSIVE SumTo(_, _)
SumTo(s, n) == IF n = 0 THEN 0 ELSE SumTo(s, n - 1) + s[n]

SetMin(S) == CHOOSE x \in S : \A y \in S : x <= y

SeqsUpTo(n, S) == UNION {[1..k -> S] : k \in 0..n}

\* str(n) of a positive integer, as its sequence of decimal digits.
RECURSIVE Digits(_)
Digits(n) == IF n < Base THEN <<n>> ELSE Digits(n \div Base) \o <<n % Base>>

StartsWith(s, prefix) ==
    /\ Len(prefix) <= Len(s)
    /\ \A k \in 1..Len(prefix) : s[k] = prefix[k]

\* The files of a directory holding <group>_1.nrrd .. <group>_<count>.nrrd that
\* match the pattern "<group>_<n>*": "<group>_<m>.nrrd" starts with
\* "<group>_<n>" exactly when str(m) starts with str(n).
Glob(count, n) == {m \in 1..count : StartsWith(Digits(m), Digits(n))}

\* numpy cumsum.
Cumsum(s) == [k \in 1..Len(s) |-> SumTo(s, k)]

\* numpy integer remainder: a zero divisor gives 0 (with a RuntimeWarning).
NpMod(a, b) == IF b = 0 THEN 0 ELSE a % b

---------------------------------------------------------------------------
\* The data directories the model starts from.
SmallDisks ==
    {[normal |-> n, diseased |-> d] :
        n \in SeqsUpTo(MaxNormal, 0..MaxSlices),
        d \in SeqsUpTo(MaxDiseased, 0..MaxSlices)}

\* n volumes of a slices each, but the last one of b slices.
Fill(n, a, b) == [m \in 1..n |-> IF m = n THEN b ELSE a]

LargeDisks ==
    {[normal |-> Fill(g[1], a, b), diseased |-> Fill(g[2], a, b)] :
        g \in {<<ManyPatients, 0>>, <<ManyPatients, 1>>,
               <<0, ManyPatients>>, <<1, ManyPatients>>},
        a \in 0..MaxSlices, b \in 0..MaxSlices}

Disks == SmallDisks \cup LargeDisks

NoPath == <<"none", 0>>

---------------------------------------------------------------------------
\* ASOCADataset (src/src/mis/datasets/asoca.py).

\* get_num_slices: the slice counts of Normal_1.. followed by Diseased_1..
GetNumSlices == disk.normal \o disk.diseased

\* __len__
DatasetLen == SumTo(num_slices, Len(num_slices))

\* Argwhere with the comparison >= in place of >.
Argwhere_ge(i) == {p \in 0..(Len(slice_cumsums) - 1) : slice_cumsums[p + 1] >= i}

\* np.argwhere(self.slice_cumsums > index): the positions that qualify.
Argwhere(i) == {p \in 0..(Len(slice_cumsums) - 1) : slice_cumsums[p + 1] > i}

\* np.argwhere(...)[0, 0]
PatientIdx(i) == SetMin(Argwhere(i))

\* SliceIdx with the cumulative count as the divisor.
SliceIdx_cum(i, p) == i % slice_cumsums[p + 1]

\* index % self.num_slices[patient_idx]   (Python ints: the divisor is not 0 here)
SliceIdx(i, p) == i % num_slices[p + 1]

FileGroup(p) == IF p < num_normal THEN "Normal" ELSE "Diseased"

\* the number formatted into the glob pattern
FileNumber(p) == IF p < num_normal THEN p + 1 ELSE NpMod(p, num_normal) + 1

\* the volumes of a group on disk, and the slice count of one of them
GroupVolumes(g) == IF g = "Normal" THEN disk.normal ELSE disk.diseased
VolumeSlices(path) == GroupVolumes(path[1])[path[2]]

\* next(iter(dir.glob(pattern))): any matching file, in directory order
GlobFiles(p) ==
    {<<FileGroup(p), m>> : m \in Glob(Len(GroupVolumes(FileGroup(p))), FileNumber(p))}

Result(p, s, c, a, o) ==
    [patient_idx |-> p, slice_idx |-> s, ctca_path |-> c, anno_path |-> a, outcome |-> o]

\* ctca[:, :, slice_idx] on the volume read from the chosen file
ReadSlice(p, s, c, a) ==
    IF s < VolumeSlices(c)
    THEN Result(p, s, c, a, "ok")
    ELSE Result(p, s, c, a, "IndexError")

\* Every way one call __getitem__(i) can end.
GetItemResults(i) ==
    IF Argwhere(i) = {}
    THEN {Result(-1, -1, NoPath, NoPath, "IndexError")}
    ELSE LET p == PatientIdx(i) IN
         IF num_slices[p + 1] = 0
         THEN {Result(p, -1, NoPath, NoPath, "ZeroDivisionError")}
         ELSE LET s == SliceIdx(i, p) IN
              IF GlobFiles(p) = {}
              THEN {Result(p, s, NoPath, NoPath, "StopIteration")}
              ELSE {ReadSlice(p, s, c, a) : c \in GlobFiles(p), a \in GlobFiles(p)}

IndexRange == (0 - IndexSlack)..(DatasetLen - 1 + IndexSlack)

\* An array cut from a volume: the file it was read from and the slice
\* offsets (along the last axis of the volume) it holds, in order.
Array(path, offsets) == [path |-> path, slices |-> offsets]

NoSample == [image |-> Array(NoPath, <<>>), mask |-> Array(NoPath, <<>>)]

\* A mask cut at slice offset s, as the image is.
MaskOf_sliced(path, s) == Array(path, <<s>>)

\* lines 47, 55, 59: anno is read and returned whole, slice_idx is not applied
MaskOf(path, s) == Array(path, [k \in 1..VolumeSlices(path) |-> k - 1])

\* lines 45-46, 57-60: the returned dictionary; "image" is the one slice
\* ctca[:, :, slice_idx]
Sample(r) ==
    IF r.outcome = "ok"
    THEN [image |-> Array(r.ctca_path, <<r.slice_idx>>),
          mask |-> MaskOf(r.anno_path, r.slice_idx)]
    ELSE NoSample

DataInit ==
    /\ disk \in Disks
    /\ constructed = FALSE
    /\ num_slices = <<>>
    /\ num_normal = 0
    /\ num_diseased = 0
    /\ slice_cumsums = <<>>
    /\ index = 0
    /\ patient_idx = -1
    /\ slice_idx = -1
    /\ ctca_path = NoPath
    /\ anno_path = NoPath
    /\ outcome = "none"
    /\ sample = NoSample

\* ASOCADataset.__init__
Construct ==
    /\ ~constructed
    /\ constructed' = TRUE
    /\ num_slices' = GetNumSlices
    /\ num_normal' = Len(disk.normal)
    /\ num_diseased' = Len(disk.diseased)
    /\ slice_cumsums' = Cumsum(GetNumSlices)
    /\ UNCHANGED <<disk, index, patient_idx, slice_idx, ctca_path, anno_path, outcome,
                   sample>>
    /\ UNCHANGED <<trainVars, toolVars>>

\* ASOCADataset.__getitem__(i)
GetItem ==
    /\ constructed
    /\ outcome = "none"
    /\ \E i \in IndexRange : \E r \in GetItemResults(i) :
          /\ index' = i
          /\ patient_idx' = r.patient_idx
          /\ slice_idx' = r.slice_idx
          /\ ctca_path' = r.ctca_path
          /\ anno_path' = r.anno_path
          /\ outcome' = r.outcome
          /\ sample' = Sample(r)
    /\ UNCHANGED <<disk, constructed, num_slices, num_normal, num_diseased, slice_cumsums>>
    /\ UNCHANGED <<trainVars, toolVars>>

\* The caller takes the sample (or handles the exception); the next call follows.
Return ==
    /\ outcome # "none"
    /\ index' = 0
    /\ patient_idx' = -1
    /\ slice_idx' = -1
    /\ ctca_path' = NoPath
    /\ anno_path' = NoPath
    /\ outcome' = "none"
    /\ sample' = NoSample
    /\ UNCHANGED <<disk, constructed, num_slices, num_normal, num_diseased, slice_cumsums>>
    /\ UNCHANGED <<trainVars, toolVars>>

---------------------------------------------------------------------------
\* The training script (src/scripts/train_unet2d.py).

\* float("inf"): above every loss.
Inf == MaxLoss + 1

\* np.random.choice(len(total_preds), 50, replace=False)
PlotSamples == 50

Losses == {"dice", "focal", "gdlv"}
Dsets == {"asoca", "brats"}

\* the values the docstring names (lines 187-188)
SkipConns == {"concat", "add"}
SplitStrats == {"patientwise", "random"}

ArgValues ==
    [loss : Losses \cup {"other"},
     dataset : Dsets \cup {"other"},
     skip_conn : SkipConns \cup {"sum"},
     split_strat : SplitStrats \cup {"other"}]

DefaultArgs ==
    [loss |-> "dice", dataset |-> "asoca", skip_conn |-> "concat",
     split_strat |-> "patientwise"]

\* Paths below out_dir: <<0, name>> is out_dir/name, <<e, name>> is
\* out_dir/epoch<e>/name.
TopModel == <<0, "model">>

\* Contents of model files.
Scratch == [origin |-> "scratch", run |-> 0, epoch |-> 0]
External == [origin |-> "external", run |-> 0, epoch |-> 0]
Checkpoint(r, e) == [origin |-> "checkpoint", run |-> r, epoch |-> e]

NoFiles == [path \in {} |-> Scratch]

TrainIdle ==
    /\ args = DefaultArgs
    /\ n_val = 0
    /\ pc = "idle"
    /\ created = {}
    /\ err = "none"
    /\ run = 0
    /\ fs = NoFiles
    /\ weights = Scratch
    /\ loss_fn = "none"
    /\ epoch = 0
    /\ val_losses = <<>>
    /\ min_loss = Inf
    /\ saved = <<>>

\* The script has parsed its command line (line 209). The results directory
\* is empty, or holds a file "model" somebody put there.
TrainInit ==
    /\ args \in ArgValues
    /\ n_val \in {PlotSamples - 1, PlotSamples}
    /\ pc = "parse"
    /\ created = {}
    /\ err = "none"
    /\ run = 1
    /\ fs \in {NoFiles, TopModel :> External}
    /\ weights = Scratch
    /\ loss_fn = "none"
    /\ epoch = 0
    /\ val_losses = <<>>
    /\ min_loss = Inf
    /\ saved = <<>>

Raise(e) == pc' = "error" /\ err' = e

\* Dropping the dataset check.
ArgsError_loss_only(a) == IF a.loss \notin Losses THEN "ValueError" ELSE "none"

\* lines 211-217: the exception the argument checks raise
ArgsError(a) ==
    IF a.loss \notin Losses THEN "ValueError"
    ELSE IF a.dataset \notin Dsets THEN "ValueError"
    ELSE "none"

ValidateArgs ==
    /\ pc = "parse"
    /\ IF ArgsError(args) # "none"
       THEN Raise(ArgsError(args))
       ELSE pc' = "build_data" /\ err' = err
    /\ UNCHANGED <<args, n_val, created, run, fs, weights, loss_fn, epoch, val_losses,
                   min_loss, saved>>
    /\ UNCHANGED <<dataVars, toolVars>>

\* lines 219-264. Both ASOCADataset calls pass keywords (thresh, split_strat,
\* ...) that ASOCADataset.__init__ does not take: TypeError. Any other
\* dataset value takes the BratsDataset branch, whatever split_strat is.
BuildDatasets ==
    /\ pc = "build_data"
    /\ IF args.dataset = "asoca"
       THEN Raise("TypeError") /\ created' = created
       ELSE pc' = "make_dir" /\ err' = err /\ created' = created \cup {"dataset"}
    /\ UNCHANGED <<args, n_val, run, fs, weights, loss_fn, epoch, val_losses, min_loss,
                   saved>>
    /\ UNCHANGED <<dataVars, toolVars>>

\* lines 266-267
MakeOutDir ==
    /\ pc = "make_dir"
    /\ pc' = "build_model"
    /\ created' = created \cup {"out_dir"}
    /\ UNCHANGED <<args, n_val, err, run, fs, weights, loss_fn, epoch, val_losses,
                   min_loss, saved>>
    /\ UNCHANGED <<dataVars, toolVars>>

\* line 269: the script passes skip_conn on unchecked. The model classes are
\* not part of the sources at hand: for a value other than "concat" and "add"
\* (such as the "sum" of model_parameters.py, line 24) the constructor may
\* raise or may take it.
BuildModel ==
    /\ pc = "build_model"
    /\ \/ /\ pc' = "load"
          /\ created' = created \cup {"model"}
          /\ err' = err
       \/ /\ args.skip_conn \notin SkipConns
          /\ Raise("ValueError")
          /\ created' = created
    /\ UNCHANGED <<args, n_val, run, fs, weights, loss_fn, epoch, val_losses, min_loss,
                   saved>>
    /\ UNCHANGED <<dataVars, toolVars>>

\* lines 271-275: load out_dir/"model" if there is one
LoadState ==
    /\ pc = "load"
    /\ \/ /\ TopModel \in DOMAIN fs
          /\ weights' = fs[TopModel]
       \/ /\ TopModel \notin DOMAIN fs
          /\ weights' = Scratch
    /\ pc' = "train"
    /\ UNCHANGED <<args, n_val, created, err, run, fs, loss_fn, epoch, val_losses,
                   min_loss, saved>>
    /\ UNCHANGED <<dataVars, toolVars>>

\* line 41
LossFn(loss) ==
    IF loss = "dice" THEN "dice_loss"
    ELSE IF loss = "gdlv" THEN "gdlv_loss"
    ELSE "focal_loss"

\* train, lines 34-43
TrainBegin ==
    /\ pc = "train"
    /\ pc' = "epoch"
    /\ min_loss' = Inf
    /\ loss_fn' = LossFn(args.loss)
    /\ val_losses' = <<>>
    /\ epoch' = 0
    /\ UNCHANGED <<args, n_val, created, err, run, fs, weights, saved>>
    /\ UNCHANGED <<dataVars, toolVars>>

\* Saving also on an equal loss.
NewMin_le(v, m) == v <= m

\* line 125
NewMin(v, m) == v < m

\* lines 129-135: epoch<e+1>/model and epoch<e+1>/metrics.json
WriteCheckpoint(files, e, v) ==
    (<<e + 1, "model">> :> Checkpoint(run, e + 1))
        @@ (<<e + 1, "metrics.json">> :> [val_loss |-> v])
        @@ files

\* One pass of the epoch loop, lines 45-156, with validation loss v.
Epoch ==
    /\ pc = "epoch"
    /\ epoch < NumEpochs
    /\ \E v \in 0..MaxLoss :
          /\ val_losses' = Append(val_losses, v)
          /\ IF NewMin(v, min_loss)
             THEN /\ min_loss' = v
                  /\ fs' = WriteCheckpoint(fs, epoch, v)
                  /\ saved' = Append(saved, epoch)
                  \* lines 138-154: 50 distinct samples to plot
                  /\ IF n_val < PlotSamples
                     THEN Raise("ValueError") /\ epoch' = epoch
                     ELSE pc' = pc /\ err' = err /\ epoch' = epoch + 1
             ELSE /\ UNCHANGED <<min_loss, fs, saved, pc, err>>
                  /\ epoch' = epoch + 1
    /\ UNCHANGED <<args, n_val, created, run, weights, loss_fn>>
    /\ UNCHANGED <<dataVars, toolVars>>

\* lines 158-174: the two plots, then the script ends
TrainEnd ==
    /\ pc = "epoch"
    /\ epoch = NumEpochs
    /\ pc' = "done"
    /\ fs' = (<<0, "loss.png">> :> [plot |-> "loss"])
                @@ (<<0, "dice.png">> :> [plot |-> "dice"]) @@ fs
    /\ UNCHANGED <<args, n_val, created, err, run, weights, loss_fn, epoch, val_losses,
                   min_loss, saved>>
    /\ UNCHANGED <<dataVars, toolVars>>

\* The script is started again with the same arguments.
Rerun ==
    /\ pc \in {"done", "error"}
    /\ run < MaxRuns
    /\ run' = run + 1
    /\ pc' = "parse"
    /\ created' = {}
    /\ err' = "none"
    /\ weights' = Scratch
    /\ loss_fn' = "none"
    /\ epoch' = 0
    /\ val_losses' = <<>>
    /\ min_loss' = Inf
    /\ saved' = <<>>
    /\ UNCHANGED <<args, n_val, fs>>
    /\ UNCHANGED <<dataVars, toolVars>>

DataIdle ==
    /\ disk = [normal |-> <<>>, diseased |-> <<>>]
    /\ constructed = FALSE
    /\ num_slices = <<>>
    /\ num_normal = 0
    /\ num_diseased = 0
    /\ slice_cumsums = <<>>
    /\ index = 0
    /\ patient_idx = -1
    /\ slice_idx = -1
    /\ ctca_path = NoPath
    /\ anno_path = NoPath
    /\ outcome = "none"
    /\ sample = NoSample

---------------------------------------------------------------------------
\* The runtime profiler: perform_runtime_analysis_unet (runtime.py, lines
\* 37-113); perform_runtime_analysis_segformer (lines 142-217) takes its
\* times in the same way.

\* What the clock may advance by between two readings of time.time().
Ticks == 0..MaxTick

NoInterval == [stage |-> "none", t0 |-> 0, t1 |-> 0]
Interval(stage, t0, t1) == [stage |-> stage, t0 |-> t0, t1 |-> t1]

NoSlicesT == [pre |-> <<>>, inf |-> <<>>, post |-> <<>>]
NoTimes == [loading |-> <<>>, pre |-> <<>>, inf |-> <<>>, post |-> <<>>, total |-> <<>>]
NotPrinted == [loading |-> 0, pre |-> 0, inf |-> 0, post |-> 0, total |-> 0,
               patients |-> 0, percent |-> <<>>]

\* sum(list)
Sum(list) == SumTo(list, Len(list))

\* A stage time taken from the start of the patient instead of its own t0.
Elapsed_since_total_t0(t0, t1) == t1 - total_t0

\* t1 - t0 of one timed stage
Elapsed(t0, t1) == t1 - t0

\* round(num / den): to the nearest integer, a tie to the even one
RoundHalfEven(num, den) ==
    LET q == num \div den
        r == 2 * (num % den)
    IN IF r < den THEN q
       ELSE IF r > den THEN q + 1
       ELSE IF q % 2 = 0 THEN q ELSE q + 1

\* round(stage_time / total_time * 100, 2), in hundredths of a percent. Both
\* averages divide by the same number of patients, so their quotient is that
\* of the sums.
Percent(stage_sum, total_sum) == RoundHalfEven(stage_sum * 100 * 100, total_sum)

ProfIdle ==
    /\ now = 0
    /\ ppc = "idle"
    /\ number_of_patients = 0
    /\ patient = 0
    /\ n_img = 0
    /\ slice = 0
    /\ total_t0 = 0
    /\ total_t1 = -1
    /\ prev_end = 0
    /\ cur = NoInterval
    /\ slices_t = NoSlicesT
    /\ times = NoTimes
    /\ printed = NotPrinted

\* lines 37-41: the function is entered, the five lists are empty
ProfInit ==
    /\ now = 0
    /\ ppc = "patient"
    /\ number_of_patients \in 1..NumberOfPatients
    /\ patient = 0
    /\ n_img = 0
    /\ slice = 0
    /\ total_t0 = 0
    /\ total_t1 = -1
    /\ prev_end = 0
    /\ cur = NoInterval
    /\ slices_t = NoSlicesT
    /\ times = NoTimes
    /\ printed = NotPrinted

\* lines 45-55: the patient's total time starts, the volume is loaded
LoadPatient ==
    /\ ppc = "patient"
    /\ patient < number_of_patients
    /\ \E d0 \in Ticks, d1 \in Ticks, d2 \in Ticks, shape \in 0..MaxImgSlices :
          /\ total_t0' = now + d0
          /\ cur' = Interval("load", now + d0 + d1, now + d0 + d1 + d2)
          /\ now' = now + d0 + d1 + d2
          /\ now' <= MaxClock
          /\ n_img' = shape
    /\ total_t1' = -1
    /\ prev_end' = total_t0'
    /\ slice' = 0
    /\ slices_t' = NoSlicesT
    /\ times' = [times EXCEPT !.loading = Append(@, Elapsed(cur'.t0, cur'.t1))]
    /\ ppc' = "pre"
    /\ UNCHANGED <<number_of_patients, patient, printed>>
    /\ UNCHANGED <<dataVars, trainVars, loopVars>>

\* One timed stage of a slice: t0 is read, the stage runs, t1 is read.
Stage(here, name, next) ==
    /\ ppc = here
    /\ slice < n_img
    /\ \E d0 \in Ticks, d1 \in Ticks :
          /\ cur' = Interval(name, now + d0, now + d0 + d1)
          /\ now' = now + d0 + d1
          /\ now' <= MaxClock
    /\ prev_end' = cur.t1
    /\ slices_t' = [slices_t EXCEPT ![name] = Append(@, Elapsed(cur'.t0, cur'.t1))]
    /\ ppc' = next
    /\ slice' = IF name = "post" THEN slice + 1 ELSE slice
    /\ UNCHANGED <<number_of_patients, patient, n_img, total_t0, total_t1, times, printed>>
    /\ UNCHANGED <<dataVars, trainVars, loopVars>>

\* lines 60-65, 67-69, 71-75 (the appends of lines 77-79 with each)
Preprocess == Stage("pre", "pre", "inf")
Inference == Stage("inf", "inf", "post")
Postprocess == Stage("post", "post", "pre")

\* lines 81-87: the loop over the slices is over, the total time ends
FinishPatient ==
    /\ ppc = "pre"
    /\ slice = n_img
    /\ \E d \in Ticks :
          /\ now' = now + d
          /\ now' <= MaxClock
          /\ total_t1' = now + d
    /\ times' = [times EXCEPT !.pre = Append(@, Sum(slices_t.pre)),
                              !.inf = Append(@, Sum(slices_t.inf)),
                              !.post = Append(@, Sum(slices_t.post)),
                              !.total = Append(@, total_t1' - total_t0)]
    /\ patient' = patient + 1
    /\ ppc' = IF patient + 1 = number_of_patients THEN "averages" ELSE "patient"
    /\ UNCHANGED <<number_of_patients, n_img, slice, total_t0, prev_end, cur, slices_t,
                   printed>>
    /\ UNCHANGED <<dataVars, trainVars, loopVars>>

\* lines 89-113: the averages (kept as sums over the common number of
\* patients) and the percentages; a total of 0 makes line 95 divide by zero
Averages ==
    /\ ppc = "averages"
    /\ IF Sum(times.total) = 0
       THEN ppc' = "ZeroDivisionError" /\ printed' = printed
       ELSE /\ ppc' = "printed"
            /\ printed' =
                  [loading |-> Sum(times.loading), pre |-> Sum(times.pre),
                   inf |-> Sum(times.inf), post |-> Sum(times.post),
                   total |-> Sum(times.total), patients |-> Len(times.total),
                   percent |-> <<Percent(Sum(times.loading), Sum(times.total)),
                                 Percent(Sum(times.pre), Sum(times.total)),
                                 Percent(Sum(times.inf), Sum(times.total)),
                                 Percent(Sum(times.post), Sum(times.total))>>]
    /\ UNCHANGED <<now, number_of_patients, patient, n_img, slice, total_t0, total_t1,
                   prev_end, cur, slices_t, times>>
    /\ UNCHANGED <<dataVars, trainVars, loopVars>>

---------------------------------------------------------------------------
\* The main loops of runtime.py (lines 232-243) and model_parameters.py
\* (lines 41-54).

\* A model name, as the words it is made of; `"unet2d" in name` asks whether
\* the word occurs in it.
Names ==
    {<<"unet2d", "results">>,
     <<"unet2d", "nonlocal", "concat">>,
     <<"unet2d", "nonlocal", "add">>,
     <<"segformer", "results">>,
     <<"resnet", "results">>}

Contains(name, word) == \E k \in 1..Len(name) : name[k] = word

\* model_parameters.py, get_model_unet2d (lines 15-28) and get_model_segformer
\* (lines 30-37): the model built and loaded for a name
GetModelUnet2d(name) ==
    IF Contains(name, "nonlocal")
    THEN IF Contains(name, "concat")
         THEN [class |-> "UNet2DNonLocal", skip_conn |-> "concat", name |-> name]
         ELSE [class |-> "UNet2DNonLocal", skip_conn |-> "sum", name |-> name]
    ELSE [class |-> "UNet2D", skip_conn |-> "default", name |-> name]

GetModelSegformer(name) ==
    [class |-> "Segformer", skip_conn |-> "none", name |-> name]

\* the variable model before its first assignment
Unbound == [class |-> "unbound", skip_conn |-> "none", name |-> <<>>]

\* One report: the position and name it is printed for, and the name whose
\* model it was computed from.
Report(k, name, from) == [pos |-> k, name |-> name, from |-> from]

LoopIdle ==
    /\ script = "none"
    /\ model_names = <<>>
    /\ pos = 0
    /\ model = Unbound
    /\ reports = <<>>
    /\ unrecognized = {}
    /\ serr = "none"

ToolsIdle == LoopIdle /\ ProfIdle

LoopInit ==
    /\ script \in {"runtime", "model_parameters"}
    /\ model_names \in SeqsUpTo(MaxNames, Names)
    /\ pos = 0
    /\ model = Unbound
    /\ reports = <<>>
    /\ unrecognized = {}
    /\ serr = "none"

\* the else of the second if: it belongs to `if "segformer" in ...` alone
ElseTaken(name) == ~Contains(name, "segformer")

\* runtime.py, lines 237-243: one pass of the loop. Each analysis loads the
\* model of the name it is given (lines 18-27, 129-132) and reports on it; the
\* ValueError of line 243 is built and dropped, never raised.
RuntimeStep ==
    /\ script = "runtime"
    /\ serr = "none"
    /\ pos < Len(model_names)
    /\ LET name == model_names[pos + 1]
           r1 == IF Contains(name, "unet2d")
                 THEN <<Report(pos + 1, name, GetModelUnet2d(name).name)>> ELSE <<>>
           r2 == IF Contains(name, "segformer")
                 THEN <<Report(pos + 1, name, GetModelSegformer(name).name)>> ELSE <<>>
       IN /\ reports' = reports \o r1 \o r2
          /\ unrecognized' =
                IF ElseTaken(name) THEN unrecognized \cup {pos + 1} ELSE unrecognized
    /\ pos' = pos + 1
    /\ UNCHANGED <<script, model_names, model, serr>>
    /\ UNCHANGED <<dataVars, trainVars, profVars>>

\* model_parameters.py, lines 45-54: one pass of the loop. The ValueError of
\* line 51 is built and dropped; line 53 then reads model, whatever it holds:
\* NameError if it was never assigned.
ParamsStep ==
    /\ script = "model_parameters"
    /\ serr = "none"
    /\ pos < Len(model_names)
    /\ LET name == model_names[pos + 1]
           m1 == IF Contains(name, "unet2d") THEN GetModelUnet2d(name) ELSE model
           m2 == IF Contains(name, "segformer") THEN GetModelSegformer(name) ELSE m1
       IN /\ model' = m2
          /\ unrecognized' =
                IF ElseTaken(name) THEN unrecognized \cup {pos + 1} ELSE unrecognized
          /\ IF m2 = Unbound
             THEN serr' = "NameError" /\ reports' = reports
             ELSE serr' = serr /\ reports' = Append(reports, Report(pos + 1, name, m2.name))
    /\ pos' = pos + 1
    /\ UNCHANGED <<script, model_names>>
    /\ UNCHANGED <<dataVars, trainVars, profVars>>

---------------------------------------------------------------------------
Init == DataInit /\ TrainIdle /\ ToolsIdle

Next == Construct \/ GetItem \/ Return

Spec == Init /\ [][Next]_vars

\* The training script, run once or several times on one results directory.
TrainSpecInit == DataIdle /\ TrainInit /\ ToolsIdle

TrainNext ==
    \/ ValidateArgs
    \/ BuildDatasets
    \/ MakeOutDir
    \/ BuildModel
    \/ LoadState
    \/ TrainBegin
    \/ Epoch
    \/ TrainEnd
    \/ Rerun

TrainSpec == TrainSpecInit /\ [][TrainNext]_vars

\* The two scripts that loop over model_names.
LoopSpecInit == DataIdle /\ TrainIdle /\ LoopInit /\ ProfIdle

LoopNext == RuntimeStep \/ ParamsStep

LoopSpec == LoopSpecInit /\ [][LoopNext]_vars

\* One call of the runtime profiler.
ProfSpecInit == DataIdle /\ TrainIdle /\ LoopIdle /\ ProfInit

ProfNext ==
    \/ LoadPatient
    \/ Preprocess
    \/ Inference
    \/ Postprocess
    \/ FinishPatient
    \/ Averages

ProfSpec == ProfSpecInit /\ [][ProfNext]_vars

---------------------------------------------------------------------------
\* Properties of the dataset indexer.

\* Total slice count of the patients before position p.
SlicesBefore(p) == SumTo(num_slices, p)

Positions == 0..(Len(num_slices) - 1)

\* The last call was __getitem__(index) with index inside [0, len).
CalledInRange == outcome # "none" /\ 0 <= index /\ index < DatasetLen

\* What __getitem__ computes for index j, as a pair.
Resolve(j) == <<PatientIdx(j), SliceIdx(j, PatientIdx(j))>>

\* The (patient position, slice offset) pairs of the dataset.
Slots == {<<p, s>> \in Positions \X (0..MaxSlices + 1) : s < num_slices[p + 1]}

\* C1: for 0 <= index < len, the slice offset __getitem__ computes is index
\* minus the total slice count of the patients before the selected one.
C1_PrefixSumOffset ==
    CalledInRange => slice_idx = index - SlicesBefore(patient_idx)

\* C2: for 0 <= index < len, the selected patient is the unique position p
\* with cumsum[p-1] <= index < cumsum[p], positions list the Normal volumes
\* and then the Diseased ones, and the selected patient has slices.
C2_PatientSelected ==
    /\ constructed =>
          \A p \in Positions :
              num_slices[p + 1] =
                  IF p < Len(disk.normal) THEN disk.normal[p + 1]
                  ELSE disk.diseased[p - Len(disk.normal) + 1]
    /\ CalledInRange =>
          /\ patient_idx \in Positions
          /\ \A q \in Positions :
                (SlicesBefore(q) <= index /\ index < SlicesBefore(q + 1))
                    <=> q = patient_idx
          /\ num_slices[patient_idx + 1] > 0

\* A patient was selected that follows a patient without slices.
C2_Witness ==
    /\ CalledInRange
    /\ outcome = "ok"
    /\ patient_idx >= 1
    /\ num_slices[patient_idx] = 0
    /\ index > SlicesBefore(patient_idx)

\* C7: len is the sum of the slice counts (the last cumulative sum), every
\* index in [0, len) yields a sample and every other index raises.
C7_LenAndRange ==
    /\ constructed =>
          /\ DatasetLen = SumTo(GetNumSlices, Len(GetNumSlices))
          /\ Len(slice_cumsums) > 0 => DatasetLen = slice_cumsums[Len(slice_cumsums)]
    /\ outcome # "none" =>
          (outcome = "ok" <=> (0 <= index /\ index < DatasetLen))

\* C8: a position p >= num_normal resolves the file Diseased_{p - num_normal + 1}.
C8_DiseasedFile ==
    (outcome # "none" /\ ctca_path # NoPath /\ patient_idx >= num_normal) =>
        /\ ctca_path = <<"Diseased", patient_idx - num_normal + 1>>
        /\ anno_path = <<"Diseased", patient_idx - num_normal + 1>>

\* C9: the files chosen by the pattern "<group>_<n>*" are those of patient n,
\* so the slice offset lies inside the volume read (the last part is stated
\* for the Normal group, where n is the selected patient's own number).
C9_GlobSelectsOwnFile ==
    (outcome # "none" /\ ctca_path # NoPath) =>
        /\ ctca_path = <<FileGroup(patient_idx), FileNumber(patient_idx)>>
        /\ anno_path = <<FileGroup(patient_idx), FileNumber(patient_idx)>>
        /\ (patient_idx < num_normal => slice_idx < VolumeSlices(ctca_path))

\* C10: index -> (patient position, slice offset) is a bijection from
\* [0, len) onto the slots {(p, s) : 0 <= s < num_slices[p]}.
C10_Bijection ==
    CalledInRange =>
        /\ <<patient_idx, slice_idx>> \in Slots
        /\ \A j \in 0..(DatasetLen - 1) :
              j # index => Resolve(j) # <<patient_idx, slice_idx>>
        /\ \A slot \in Slots : \E j \in 0..(DatasetLen - 1) : Resolve(j) = slot
        /\ Cardinality(Slots) = DatasetLen

\* A slice of a later patient was produced whose offset is not the
\* prefix-sum offset, on a dataset of several patients with slices.
C10_Witness ==
    /\ CalledInRange
    /\ patient_idx >= 1
    /\ SlicesBefore(patient_idx) > 0
    /\ num_slices[patient_idx + 1] >= 2
    /\ slice_idx # index - SlicesBefore(patient_idx)

---------------------------------------------------------------------------
\* Properties of the training script.

\* 0-based epochs whose validation loss train has recorded in this run.
Done == 0..(Len(val_losses) - 1)

LossOf(e) == val_losses[e + 1]

MinOf(E) == CHOOSE v \in {LossOf(e) : e \in E} : \A e \in E : v <= LossOf(e)

SavedSet == {saved[k] : k \in 1..Len(saved)}

\* C3: min_loss is the minimum validation loss so far; epoch e wrote a
\* checkpoint (model and metrics.json in epoch{e+1}) exactly when its loss is
\* strictly below every earlier one; the last checkpoint written is that of
\* the earliest epoch attaining the minimum.
C3_BestCheckpoint ==
    (pc \in {"epoch", "done", "error"} /\ Done # {}) =>
        /\ min_loss = MinOf(Done)
        /\ \A e \in Done :
              e \in SavedSet <=> (\A d \in Done : d < e => LossOf(e) < LossOf(d))
        /\ \A e \in SavedSet :
              /\ <<e + 1, "model">> \in DOMAIN fs
              /\ fs[<<e + 1, "model">>] = Checkpoint(run, e + 1)
              /\ <<e + 1, "metrics.json">> \in DOMAIN fs
              /\ fs[<<e + 1, "metrics.json">>] = [val_loss |-> LossOf(e)]
        /\ \A k \in 1..(Len(saved) - 1) : saved[k] < saved[k + 1]
        /\ Len(saved) > 0
        /\ LossOf(saved[Len(saved)]) = MinOf(Done)
        /\ \A d \in Done : LossOf(d) = MinOf(Done) => saved[Len(saved)] <= d

\* A finished run that improved once and then tied its minimum.
C3_Witness ==
    /\ pc = "done"
    /\ Len(saved) = 2
    /\ \E d \in Done : d > saved[2] /\ LossOf(d) = min_loss

\* Model files that an earlier run of the script saved.
EarlierCheckpoints ==
    {path \in DOMAIN fs :
        /\ path[2] = "model"
        /\ fs[path].origin = "checkpoint"
        /\ fs[path].run < run}

\* C4: a run that follows a run which saved a checkpoint loads a saved model
\* and resumes from it; training starts from scratch only when no earlier run
\* saved one.
C4_ResumesFromCheckpoint ==
    pc = "train" =>
        /\ EarlierCheckpoints # {} =>
              \E path \in EarlierCheckpoints : weights = fs[path]
        /\ weights = Scratch => EarlierCheckpoints = {}

\* C5: a loss outside {dice, focal, gdlv} or a dataset outside {asoca, brats}
\* ends the script with ValueError before anything is created; otherwise the
\* loss function is dice_loss, gdlv_loss or focal_loss after the loss name.
C5_ArgsValidated ==
    /\ (args.loss \notin {"dice", "focal", "gdlv"}
            \/ args.dataset \notin {"asoca", "brats"}) =>
          /\ pc \in {"parse", "error"}
          /\ created = {}
          /\ loss_fn = "none"
          /\ pc = "error" => err = "ValueError"
    /\ loss_fn # "none" =>
          \/ args.loss = "dice" /\ loss_fn = "dice_loss"
          \/ args.loss = "gdlv" /\ loss_fn = "gdlv_loss"
          \/ args.loss = "focal" /\ loss_fn = "focal_loss"

\* The dataset name was rejected although the loss name is a good one.
C5_Witness ==
    /\ pc = "error"
    /\ err = "ValueError"
    /\ args.loss = "focal"
    /\ args.dataset = "other"
    /\ created = {}

\* C6: training is reached only with split_strat in {patientwise, random} and
\* skip_conn in {concat, add}; any other value ends the script with an error.
C6_SplitAndSkipValidated ==
    pc \in {"train", "epoch", "done"} =>
        /\ args.split_strat \in {"patientwise", "random"}
        /\ args.skip_conn \in {"concat", "add"}

---------------------------------------------------------------------------
\* Properties of the returned sample.

\* C11: the sample pairs one image slice with the mask of the same patient
\* at the same slice offset: "image" and "mask" are both the single slice
\* slice_idx, cut from the files of the selected patient.
C11_ImageMaskSameSlice ==
    (CalledInRange /\ outcome = "ok") =>
        /\ sample.image.slices = <<slice_idx>>
        /\ sample.mask = MaskOf_sliced(sample.image.path, slice_idx)

---------------------------------------------------------------------------
\* Properties of the main loops over model_names.

Taken == 1..pos

Recognized(name) == Contains(name, "unet2d") \/ Contains(name, "segformer")

\* C12: the "not recognized" branch is taken exactly for the names holding
\* neither "unet2d" nor "segformer", it stops the script with ValueError, and
\* every report comes from the model loaded for the name it is printed for.
C12_NotRecognized ==
    /\ \A k \in Taken : k \in unrecognized <=> ~Recognized(model_names[k])
    /\ unrecognized # {} => serr = "ValueError"
    /\ \A k \in 1..Len(reports) : reports[k].from = reports[k].name

---------------------------------------------------------------------------
\* Properties of the runtime profiler.

\* The stage times of the current patient taken so far, added up.
StagesSoFar ==
    times.loading[Len(times.loading)]
        + Sum(slices_t.pre) + Sum(slices_t.inf) + Sum(slices_t.post)

PatientsDone == 1..Len(times.total)

\* C13: under a non-decreasing clock every timed interval of a patient
\* starts at or after the end of the one before it and lies inside the
\* patient's total interval, so the stage times of a patient add up to at
\* most its total time, the four averages add up to at most the average
\* total, and the four percentages to at most 100 up to their rounding to
\* two decimals (half a hundredth each).
C13_StagesWithinTotal ==
    /\ cur.stage # "none" =>
          /\ total_t0 <= prev_end
          /\ prev_end <= cur.t0
          /\ cur.t0 <= cur.t1
          /\ cur.t1 <= now
          /\ total_t1 # -1 => cur.t1 <= total_t1
    /\ ppc \in {"pre", "inf", "post"} => StagesSoFar <= cur.t1 - total_t0
    /\ \A k \in PatientsDone :
          times.loading[k] + times.pre[k] + times.inf[k] + times.post[k]
              <= times.total[k]
    /\ ppc = "printed" =>
          /\ printed.patients = number_of_patients
          /\ printed.loading + printed.pre + printed.inf + printed.post <= printed.total
          /\ Sum(printed.percent) <= 100 * 100 + 2

\* Two patients were averaged, every stage took time, and the stages do not
\* fill the total.
C13_Witness ==
    /\ ppc = "printed"
    /\ printed.patients = 2
    /\ printed.loading > 0
    /\ printed.pre > 0
    /\ printed.inf > 0
    /\ printed.post > 0
    /\ printed.loading + printed.pre + printed.inf + printed.post < printed.total

====
